---- MODULE Spec2Model ----
(***************************************************************************)
(* Model of the hypothesis debug server, scripts/debug-server.js: an HTTP  *)
(* listener with the routes POST /debug, GET /health, GET /logs and        *)
(* POST /clear over one NDJSON log file and one in-memory counter.         *)
(*                                                                         *)
(* Text (request bodies, the log file, response bodies) is a sequence of   *)
(* lexical tokens; JSON.parse and JSON.stringify are modelled as a parser  *)
(* and a printer over these tokens.  One action is one callback of the     *)
(* single-threaded event loop (or one statement of the top-level script).  *)
(***************************************************************************)
EXTENDS Integers, Sequences, FiniteSets, TLC

(* ------------------------------ bounds --------------------------------- *)
MaxConns == 2      \* simultaneously open ingest connections
MaxHandled == 2    \* POST /debug requests begun in one behaviour
MaxClock == 2      \* values of Date.now() are 1..MaxClock
ChunkLen == 4      \* tokens carried by one 'data' chunk

(* --------------------------- program constants ------------------------- *)
PORT == 3947
LOG_FILE == ".claude-logs/debug.ndjson"

(* ------------------------------ JS values ------------------------------ *)
Undefined == [t |-> "undefined"]
Null == [t |-> "null"]
Num(n) == [t |-> "num", n |-> n]
Str(s) == [t |-> "str", s |-> s]
Obj(m) == [t |-> "obj", m |-> m]          \* m: sequence of [k, v], keys distinct
Arr(e, x) == [t |-> "arr", e |-> e, x |-> x]  \* elements e, expando properties x

NL == "\n"

(* Math.random().toString(36).slice(2, 6) *)
RandomSuffixes == {"ab", "cd"}
Clock == 1..MaxClock

(* `log_${Date.now()}_${Math.random().toString(36).slice(2, 6)}` *)
GenId(now, rnd) == "log_" \o ToString(now) \o "_" \o rnd

(* ------------------------- string and number literals ------------------ *)
BaseStrings ==
  {"", "A", "k1", "a.js:1", "a", "id", "serverTimestamp", "hypothesisId",
   "location", "message", "toString", "a\nb", "status", "ok", "logCount", "port"}
StrUniverse == BaseStrings \cup {GenId(n, r) : n \in Clock, r \in RandomSuffixes}
NumUniverse == 0..(MaxClock + 7) \cup {PORT}

(* JSON.stringify of a string: quotes it and escapes the control characters *)
Quote(s) == IF s = "a\nb" THEN "\"a\\nb\"" ELSE "\"" \o s \o "\""

(* the literal tokens and the values they denote *)
StrLitToks == {Quote(s) : s \in StrUniverse}
StrLitTable == [tok \in StrLitToks |-> CHOOSE s \in StrUniverse : Quote(s) = tok]
NumLitToks == {ToString(n) : n \in NumUniverse}
NumLitTable == [tok \in NumLitToks |-> CHOOSE n \in NumUniverse : ToString(n) = tok]

IsStrLit(tok) == tok \in StrLitToks
StrLitValue(tok) == StrLitTable[tok]
IsNumLit(tok) == tok \in NumLitToks
NumLitValue(tok) == NumLitTable[tok]

(* ------------------------------ JSON.parse ----------------------------- *)
Fail == [ok |-> FALSE]
Got(v, i) == [ok |-> TRUE, val |-> v, next |-> i]

(* own-property lookup in a sequence of [k, v] pairs *)
HasKey(m, k) == \E i \in 1..Len(m) : m[i].k = k
KeyIndex(m, k) == CHOOSE i \in 1..Len(m) : m[i].k = k
PutKey(m, k, v) ==
  IF HasKey(m, k)
    THEN [m EXCEPT ![KeyIndex(m, k)] = [k |-> k, v |-> v]]
    ELSE Append(m, [k |-> k, v |-> v])

RECURSIVE ParseValue(_, _), ParseMembers(_, _, _), ParseElements(_, _, _)

(* value := literal | "{" members "}" | "[" elements "]" *)
ParseValue(toks, i) ==
  IF i > Len(toks) THEN Fail
  ELSE LET tok == toks[i] IN
    CASE tok = "null" -> Got(Null, i + 1)
      [] tok = "true" -> Got([t |-> "bool", b |-> TRUE], i + 1)
      [] tok = "false" -> Got([t |-> "bool", b |-> FALSE], i + 1)
      [] IsNumLit(tok) -> Got(Num(NumLitValue(tok)), i + 1)
      [] IsStrLit(tok) -> Got(Str(StrLitValue(tok)), i + 1)
      [] tok = "{" ->
           IF i + 1 <= Len(toks) /\ toks[i + 1] = "}"
             THEN Got(Obj(<<>>), i + 2)
             ELSE ParseMembers(toks, i + 1, <<>>)
      [] tok = "[" ->
           IF i + 1 <= Len(toks) /\ toks[i + 1] = "]"
             THEN Got(Arr(<<>>, <<>>), i + 2)
             ELSE ParseElements(toks, i + 1, <<>>)
      [] OTHER -> Fail

(* members := string ":" value ("," members)? "}" ; a repeated key keeps its
   first position and takes the last value *)
ParseMembers(toks, i, acc) ==
  IF i + 1 > Len(toks) \/ ~IsStrLit(toks[i]) \/ toks[i + 1] # ":" THEN Fail
  ELSE LET r == ParseValue(toks, i + 2) IN
    IF ~r.ok \/ r.next > Len(toks) THEN Fail
    ELSE LET acc2 == PutKey(acc, StrLitValue(toks[i]), r.val) IN
      CASE toks[r.next] = "}" -> Got(Obj(acc2), r.next + 1)
        [] toks[r.next] = "," -> ParseMembers(toks, r.next + 1, acc2)
        [] OTHER -> Fail

ParseElements(toks, i, acc) ==
  LET r == ParseValue(toks, i) IN
    IF ~r.ok \/ r.next > Len(toks) THEN Fail
    ELSE CASE toks[r.next] = "]" -> Got(Arr(Append(acc, r.val), <<>>), r.next + 1)
           [] toks[r.next] = "," -> ParseElements(toks, r.next + 1, Append(acc, r.val))
           [] OTHER -> Fail

(* the whole text must be one value; otherwise SyntaxError *)
ParseText(body) ==
  LET r == ParseValue(body, 1) IN
    IF r.ok /\ r.next = Len(body) + 1 THEN [ok |-> TRUE, val |-> r.val] ELSE Fail

(* --------------------------- request bodies ---------------------------- *)
Bodies ==
  { <<"{", Quote("hypothesisId"), ":", Quote("A"), "}">>,
    <<"{", Quote("id"), ":", Quote("a\nb"), "}">>,
    <<"{", Quote("id"), ":", Quote("k1"), ",", Quote("location"), ":",
      "{", Quote("toString"), ":", "0", "}", "}">>,
    <<"null">>,
    <<"7">>,
    <<"not", "json">> }

(* payloads that differ in their id field: absent (in a payload that brings
   a serverTimestamp of its own, later than any value of the clock), a
   string, and the falsy values "", 0 and null *)
IdBodies ==
  { <<"{", Quote("serverTimestamp"), ":", "9", "}">>,
    <<"{", Quote("id"), ":", Quote("k1"), "}">>,
    <<"{", Quote("id"), ":", Quote(""), "}">>,
    <<"{", Quote("id"), ":", "0", "}">>,
    <<"{", Quote("id"), ":", "null", "}">> }

ParsedBodies == [b \in Bodies \cup IdBodies |-> ParseText(b)]

(* JSON.parse(body); the parses of the bodies the clients send are tabulated *)
JSONparse(body) ==
  IF body \in Bodies \cup IdBodies THEN ParsedBodies[body] ELSE ParseText(body)

(* ---------------------------- JSON.stringify --------------------------- *)
RECURSIVE JSONstringify(_), StringifyMembers(_, _), StringifyElements(_, _)

(* expando properties of an array are not printed *)
JSONstringify(v) ==
  CASE v.t = "null" -> <<"null">>
    [] v.t = "bool" -> IF v.b THEN <<"true">> ELSE <<"false">>
    [] v.t = "num" -> <<ToString(v.n)>>
    [] v.t = "str" -> <<Quote(v.s)>>
    [] v.t = "obj" -> <<"{">> \o StringifyMembers(v.m, 1) \o <<"}">>
    [] v.t = "arr" -> <<"[">> \o StringifyElements(v.e, 1) \o <<"]">>

StringifyMembers(m, i) ==
  IF i > Len(m) THEN <<>>
  ELSE <<Quote(m[i].k), ":">> \o JSONstringify(m[i].v)
       \o (IF i < Len(m) THEN <<",">> ELSE <<>>) \o StringifyMembers(m, i + 1)

StringifyElements(e, i) ==
  IF i > Len(e) THEN <<>>
  ELSE JSONstringify(e[i])
       \o (IF i < Len(e) THEN <<",">> ELSE <<>>) \o StringifyElements(e, i + 1)

(* --------------------------- property access --------------------------- *)
(* data.k ; reading a property of null throws TypeError (GetThrows) *)
GetThrows(data) == data.t \in {"null", "undefined"}
Get(data, k) ==
  CASE data.t = "obj" -> IF HasKey(data.m, k) THEN data.m[KeyIndex(data.m, k)].v ELSE Undefined
    [] data.t = "arr" -> IF HasKey(data.x, k) THEN data.x[KeyIndex(data.x, k)].v ELSE Undefined
    [] OTHER -> Undefined

(* data.k = v ; the script is not in strict mode, so assigning a property of
   a primitive (number, string, boolean) is silently ignored *)
Set(data, k, v) ==
  CASE data.t = "obj" -> Obj(PutKey(data.m, k, v))
    [] data.t = "arr" -> Arr(data.e, PutKey(data.x, k, v))
    [] OTHER -> data

(* ToBoolean *)
Truthy(v) ==
  CASE v.t \in {"undefined", "null"} -> FALSE
    [] v.t = "bool" -> v.b
    [] v.t = "num" -> v.n # 0
    [] v.t = "str" -> v.s # ""
    [] OTHER -> TRUE

(* ToString inside a template literal throws TypeError for an object whose
   own toString is not callable (every parsed JSON value is not callable):
   Object.prototype.valueOf then returns the object itself *)
RECURSIVE ToStringThrows(_)
ToStringThrows(v) ==
  CASE v.t = "obj" -> HasKey(v.m, "toString")
    [] v.t = "arr" -> \E i \in 1..Len(v.e) : ToStringThrows(v.e[i])
    [] OTHER -> FALSE

(* ------------------------------ the file ------------------------------- *)
NoFile == [exists |-> FALSE, content |-> <<>>]
EmptyFile == [exists |-> TRUE, content |-> <<>>]

TruncateFile_Keep(f) == [exists |-> TRUE, content |-> f.content]

(* fs.writeFileSync(LOG_FILE, '') *)
TruncateFile(f) == EmptyFile

AppendFile_Overwrite(f, text) == [exists |-> TRUE, content |-> text]

(* fs.appendFileSync(LOG_FILE, text): creates the file when it is missing *)
AppendFile(f, text) == [exists |-> TRUE, content |-> f.content \o text]

ReadLogs_Trimmed(f) ==
  IF f.exists /\ f.content # <<>> THEN SubSeq(f.content, 1, Len(f.content) - 1) ELSE <<>>

(* fs.existsSync(LOG_FILE) ? fs.readFileSync(LOG_FILE, 'utf-8') : '' *)
ReadLogs(f) == IF f.exists THEN f.content ELSE <<>>

(* ------------------------- POST /debug 'end' callback ------------------ *)
Entry_TrustsCaller(payload, t1, t2, rnd) ==
  LET id == IF Truthy(Get(payload, "id")) THEN Get(payload, "id")
            ELSE Str(GenId(t1, rnd))
      time == IF Truthy(Get(payload, "serverTimestamp"))
                THEN Get(payload, "serverTimestamp") ELSE Num(t2)
  IN Set(Set(payload, "id", id), "serverTimestamp", time)

(* data.id = data.id || `log_...`; data.serverTimestamp = Date.now() *)
Entry(payload, t1, t2, rnd) ==
  LET id == IF Truthy(Get(payload, "id")) THEN Get(payload, "id")
            ELSE Str(GenId(t1, rnd))
  IN Set(Set(payload, "id", id), "serverTimestamp", Num(t2))

(* the console echo converts data.hypothesisId (when truthy), data.location
   and data.message to strings *)
EchoThrows(data) ==
  \/ (Truthy(Get(data, "hypothesisId")) /\ ToStringThrows(Get(data, "hypothesisId")))
  \/ ToStringThrows(Get(data, "location"))
  \/ ToStringThrows(Get(data, "message"))

(* catch (e): whatever was thrown in the try block is answered 400; f and
   count are the file and the counter as the try block left them *)
CatchBlock_Counts(f, count, read) ==
  [file |-> f, logCount |-> count + 1, status |-> 400, read |-> read]

CatchBlock(f, count, read) ==
  [file |-> f, logCount |-> count, status |-> 400, read |-> read]

(* The try block and its catch.  t1 and t2 are the two values read from
   Date.now(), rnd the random suffix, appendOk whether fs.appendFileSync
   succeeds (a failing append throws before it writes).  The result is the
   file and the counter after the callback, the status sent and whether
   Date.now() was read. *)
EndCallback(body, f, count, t1, t2, rnd, appendOk) ==
  LET p == JSONparse(body) IN
    IF ~p.ok THEN CatchBlock(f, count, FALSE)             \* SyntaxError
    ELSE IF GetThrows(p.val) THEN CatchBlock(f, count, FALSE)  \* TypeError on data.id
    ELSE
      LET data == Entry(p.val, t1, t2, rnd)
          line == JSONstringify(data) \o <<NL>>
      IN IF ~appendOk THEN CatchBlock(f, count, TRUE)     \* append threw
         ELSE IF EchoThrows(data)
           THEN CatchBlock(AppendFile(f, line), count + 1, TRUE)  \* console.log threw
           ELSE [file |-> AppendFile(f, line), logCount |-> count + 1,
                 status |-> 200, read |-> TRUE]

(* content a previous run may have left in the log file *)
OldContents ==
  { <<>>,
    <<"{", Quote("id"), ":", Quote("k1"), "}", NL>>,
    <<"{", Quote("id")>> }

(* ------------------------------- state --------------------------------- *)
VARIABLES
  phase,      \* "mkdir", "truncate", "listen", "running", "draining", "stopped", "crashed"
  dirExists,  \* LOG_DIR exists
  file,       \* LOG_FILE: [exists, content]
  logCount,   \* the in-memory counter
  conns,      \* the POST /debug requests being received, oldest first
  clock,      \* the last value Date.now() returned
  last,       \* the last response sent
  handled,    \* ingests handled since the last truncation: [valid, other]
  startFail,  \* a storage step of the startup failed
  fsOk,       \* the file system accepts operations (the environment's state)
  begun,      \* number of POST /debug requests begun so far
  report,     \* the count shown by the "Total logs received" line of the console
  idle        \* number of open connections that carry no request

vars == <<phase, dirExists, file, logCount, conns, clock, last, handled, startFail, fsOk,
          begun, report, idle>>

(* a request being received: sent is the body the client sends, left the
   part not yet delivered, body the variable of the listener's closure *)
NewRequest(b) == [sent |-> b, left |-> b, body |-> <<>>]
NoneHandled == [valid |-> 0, other |-> 0]
NoReport == -1                \* the line has not been printed
NoResponse == [op |-> "none", status |-> 0, out |-> <<>>, req |-> <<>>, headers |-> <<>>]

(* the three res.setHeader calls at the top of the request listener *)
CorsHeaders ==
  ("Access-Control-Allow-Origin" :> "*")
    @@ ("Access-Control-Allow-Methods" :> "GET, POST, OPTIONS")
    @@ ("Access-Control-Allow-Headers" :> "Content-Type")

ResponseHeaders_Bare(op, status) ==
  IF status >= 400 THEN <<>> ELSE CorsHeaders

(* the headers set on res when a handler sends its answer: /health and a
   successful /logs pass a Content-Type to res.writeHead *)
ResponseHeaders(op, status) ==
  CASE op = "health" -> ("Content-Type" :> "application/json") @@ CorsHeaders
    [] op = "logs" /\ status = 200 -> ("Content-Type" :> "application/x-ndjson") @@ CorsHeaders
    [] OTHER -> CorsHeaders

(* res.writeHead(status); res.end(out) *)
Respond(op, status, out, req) ==
  [op |-> op, status |-> status, out |-> out, req |-> req,
   headers |-> ResponseHeaders(op, status)]

(* an uncaught exception ends the process: every connection is dropped *)
Crash ==
  /\ phase' = "crashed"
  /\ conns' = <<>>
  /\ idle' = 0

Init ==
  /\ phase = "mkdir"
  /\ dirExists \in BOOLEAN
  /\ file \in {NoFile} \cup {[exists |-> TRUE, content |-> c] : c \in OldContents}
  /\ file.exists => dirExists
  /\ logCount = 0
  /\ conns = <<>>
  /\ clock = 1
  /\ last = NoResponse
  /\ handled = NoneHandled
  /\ startFail = FALSE
  /\ fsOk \in BOOLEAN
  /\ begun = 0
  /\ report = NoReport
  /\ idle = 0

(* ------------------------------ startup -------------------------------- *)
StartStep_Continue(ok, nextPhase) == nextPhase

(* a statement of the top-level script: an exception it throws is uncaught
   and ends the process before the statements after it run *)
StartStep(ok, nextPhase) == IF ok THEN nextPhase ELSE "crashed"

(* if (!fs.existsSync(LOG_DIR)) fs.mkdirSync(LOG_DIR, { recursive: true }) *)
StartMkdir ==
  /\ phase = "mkdir"
  /\ LET failed == ~dirExists /\ ~fsOk IN
       /\ phase' = StartStep(~failed, "truncate")
       /\ startFail' = (startFail \/ failed)
       /\ dirExists' = (dirExists \/ fsOk)
  /\ UNCHANGED <<file, logCount, conns, clock, last, handled, fsOk, begun, report, idle>>

(* fs.writeFileSync(LOG_FILE, ''); let logCount = 0 *)
StartTruncate ==
  /\ phase = "truncate"
  /\ LET failed == ~fsOk IN
       /\ phase' = StartStep(~failed, "listen")
       /\ startFail' = (startFail \/ failed)
       /\ file' = IF failed THEN file ELSE TruncateFile(file)
  /\ logCount' = 0
  /\ UNCHANGED <<dirExists, conns, clock, last, handled, fsOk, begun, report, idle>>

(* server.listen(PORT, ...): a port in use raises an unhandled 'error' *)
Listen ==
  /\ phase = "listen"
  /\ \E bound \in BOOLEAN : phase' = StartStep(bound, "running")
  /\ UNCHANGED <<dirExists, file, logCount, conns, clock, last, handled, startFail, fsOk, begun, report, idle>>

(* ------------------------------ routing -------------------------------- *)
Methods == {"GET", "POST", "OPTIONS", "DELETE"}
Urls == {"/debug", "/health", "/logs", "/clear", "/other"}

Route_UrlFirst(method, url) ==
  CASE url = "/health" -> "health"
    [] url # "/health" /\ method = "OPTIONS" -> "preflight"
    [] method = "GET" /\ url = "/logs" -> "logs"
    [] method = "POST" /\ url = "/clear" -> "clear"
    [] method = "POST" /\ url = "/debug" -> "debug"
    [] OTHER -> "notfound"

(* the chain of tests of the request listener, in its order *)
Route(method, url) ==
  CASE method = "OPTIONS" -> "preflight"
    [] method # "OPTIONS" /\ url = "/health" -> "health"
    [] method = "GET" /\ url = "/logs" -> "logs"
    [] method = "POST" /\ url = "/clear" -> "clear"
    [] method = "POST" /\ url = "/debug" -> "debug"
    [] OTHER -> "notfound"

(* some request is dispatched to handler h *)
Routed(h) == \E m \in Methods, u \in Urls : Route(m, u) = h

(* the server accepts new connections only while it listens *)
Accepting == phase = "running"

HealthBody_Stale(count) ==
  JSONstringify(Obj(<<[k |-> "status", v |-> Str("ok")],
                      [k |-> "logCount", v |-> Num(0)],
                      [k |-> "port", v |-> Num(PORT)]>>))

(* JSON.stringify({ status: 'ok', logCount, port: PORT }) *)
HealthBody(count) ==
  JSONstringify(Obj(<<[k |-> "status", v |-> Str("ok")],
                      [k |-> "logCount", v |-> Num(count)],
                      [k |-> "port", v |-> Num(PORT)]>>))

(* ------------------------- one-callback requests ----------------------- *)
Preflight ==
  /\ Accepting
  /\ Routed("preflight")
  /\ last' = Respond("preflight", 204, <<>>, <<>>)
  /\ UNCHANGED <<phase, dirExists, file, logCount, conns, clock, handled, startFail, fsOk, begun, report, idle>>

Health ==
  /\ Accepting
  /\ Routed("health")
  /\ last' = Respond("health", 200, HealthBody(logCount), <<>>)
  /\ UNCHANGED <<phase, dirExists, file, logCount, conns, clock, handled, startFail, fsOk, begun, report, idle>>

(* a failing read is caught and answered 500 *)
GetLogs ==
  /\ Accepting
  /\ Routed("logs")
  /\ last' = IF fsOk \/ ~file.exists THEN Respond("logs", 200, ReadLogs(file), <<>>)
             ELSE Respond("logs", 500, <<"Error reading logs">>, <<>>)
  /\ UNCHANGED <<phase, dirExists, file, logCount, conns, clock, handled, startFail, fsOk, begun, report, idle>>

ClearHandler_KeepCount(f, count, truncOk) ==
  IF truncOk
    THEN [file |-> TruncateFile(f), logCount |-> count, status |-> 200, threw |-> FALSE]
    ELSE [file |-> f, logCount |-> count, status |-> 0, threw |-> TRUE]

(* POST /clear: the file and the counter after the handler, and whether the
   handler completed; a failing fs.writeFileSync throws out of the listener *)
ClearHandler(f, count, truncOk) ==
  IF truncOk
    THEN [file |-> TruncateFile(f), logCount |-> 0, status |-> 200, threw |-> FALSE]
    ELSE [file |-> f, logCount |-> count, status |-> 0, threw |-> TRUE]

Clear ==
  /\ Accepting
  /\ Routed("clear")
  /\ LET c == ClearHandler(file, logCount, fsOk) IN
       /\ file' = c.file
       /\ logCount' = c.logCount
       /\ IF c.threw
            THEN Crash /\ UNCHANGED <<last, handled>>
            ELSE /\ last' = Respond("clear", c.status, <<"Logs cleared">>, <<>>)
                 /\ handled' = NoneHandled
                 /\ UNCHANGED <<phase, conns, idle>>
  /\ UNCHANGED <<dirExists, clock, startFail, fsOk, begun, report>>

NotFound ==
  /\ Accepting
  /\ Routed("notfound")
  /\ last' = Respond("notfound", 404, <<"Not found">>, <<>>)
  /\ UNCHANGED <<phase, dirExists, file, logCount, conns, clock, handled, startFail, fsOk, begun, report, idle>>

(* ------------------------------ POST /debug ---------------------------- *)
(* Ingest(payload) takes "a single JSON object": a request whose complete
   body, as the client sent it, is one *)
ValidIngest(sent) == JSONparse(sent).ok /\ JSONparse(sent).val.t = "obj"

(* the listener registers the 'data' and 'end' callbacks and returns *)
IngestBegin ==
  /\ Accepting
  /\ Len(conns) < MaxConns
  /\ begun < MaxHandled
  /\ Routed("debug")
  /\ \E b \in Bodies : conns' = Append(conns, NewRequest(b))
  /\ begun' = begun + 1
  /\ UNCHANGED <<phase, dirExists, file, logCount, clock, last, handled, startFail, fsOk, report, idle>>

Min(a, b) == IF a < b THEN a ELSE b

OnData_Shared(cs, r, chunk) == [q \in DOMAIN cs |-> [cs[q] EXCEPT !.body = @ \o chunk]]

(* req.on('data', chunk => body += chunk): body is local to the request *)
OnData(cs, r, chunk) == [cs EXCEPT ![r].body = @ \o chunk]

IngestData ==
  /\ phase \in {"running", "draining"}
  /\ \E r \in DOMAIN conns :
       /\ conns[r].left # <<>>
       /\ LET n == Min(ChunkLen, Len(conns[r].left))
              chunk == SubSeq(conns[r].left, 1, n)
              cs == OnData(conns, r, chunk)
          IN conns' = [cs EXCEPT ![r].left = SubSeq(conns[r].left, n + 1, Len(conns[r].left))]
  /\ UNCHANGED <<phase, dirExists, file, logCount, clock, last, handled, startFail, fsOk, begun, report, idle>>

Remove_Others(cs, r) == <<>>

(* the requests still being received once request r is over *)
Remove(cs, r) == SubSeq(cs, 1, r - 1) \o SubSeq(cs, r + 1, Len(cs))

(* req.on('end', ...) *)
IngestEnd ==
  /\ phase \in {"running", "draining"}
  /\ \E r \in DOMAIN conns, t1 \in Clock, t2 \in Clock, rnd \in RandomSuffixes :
       /\ conns[r].left = <<>>
       /\ clock <= t1 /\ t1 <= t2
       /\ conns' = Remove(conns, r)
       /\ LET e == EndCallback(conns[r].body, file, logCount, t1, t2, rnd, fsOk) IN
            /\ file' = e.file
            /\ logCount' = e.logCount
            /\ last' = Respond("debug", e.status, <<>>, conns[r].body)
            /\ clock' = IF e.read THEN t2 ELSE clock
       /\ handled' = IF ValidIngest(conns[r].sent) /\ fsOk
                       THEN [handled EXCEPT !.valid = @ + 1]
                       ELSE [handled EXCEPT !.other = @ + 1]
  /\ UNCHANGED <<phase, dirExists, startFail, fsOk, begun, report, idle>>

(* the client disconnects before the body is complete: 'end' never fires *)
Abort ==
  /\ phase \in {"running", "draining"}
  /\ \E r \in DOMAIN conns :
       /\ conns[r].left # <<>>
       /\ conns' = Remove(conns, r)
  /\ UNCHANGED <<phase, dirExists, file, logCount, clock, last, handled, startFail, fsOk, begun, report, idle>>

(* ------------------------------ shutdown ------------------------------- *)
Signals == {"SIGINT", "SIGTERM"}

(* the file system starts or stops failing *)
FsChange ==
  /\ phase \notin {"stopped", "crashed"}
  /\ fsOk' = ~fsOk
  /\ UNCHANGED <<phase, dirExists, file, logCount, conns, clock, last, handled, startFail, begun, report, idle>>

(* process.on(signal, () => server.close(...)) *)
Signal ==
  /\ phase = "running"
  /\ \E s \in Signals : phase' = "draining"
  /\ UNCHANGED <<dirExists, file, logCount, conns, clock, last, handled, startFail, fsOk, begun, report, idle>>

(* the callback a signal handler passes to server.close: only SIGINT's
   prints `Total logs received: ${logCount}` before process.exit(0) *)
CloseCallback(s, count) == IF s = "SIGINT" THEN count ELSE NoReport

(* the close callback runs once every connection has ended; the state does
   not keep which signal closed the server, so it is that of either one *)
Exit ==
  /\ phase = "draining"
  /\ conns = <<>>
  /\ idle = 0
  /\ \E s \in Signals : report' = CloseCallback(s, logCount)
  /\ phase' = "stopped"
  /\ UNCHANGED <<dirExists, file, logCount, conns, clock, last, handled, startFail, fsOk, begun, idle>>

Next ==
  \/ StartMkdir
  \/ StartTruncate
  \/ Listen
  \/ Preflight
  \/ Health
  \/ GetLogs
  \/ Clear
  \/ NotFound
  \/ IngestBegin
  \/ IngestData
  \/ IngestEnd
  \/ Abort
  \/ Signal
  \/ Exit
  \/ FsChange

Spec == Init /\ [][Next]_vars

(* ------------------- restarts and payloads with an id ------------------ *)
(* the POST /debug handler, for a client that sends one of IdBodies *)
IngestBeginId ==
  /\ Accepting
  /\ Len(conns) < MaxConns
  /\ begun < MaxHandled
  /\ Routed("debug")
  /\ \E b \in IdBodies : conns' = Append(conns, NewRequest(b))
  /\ begun' = begun + 1
  /\ UNCHANGED <<phase, dirExists, file, logCount, clock, last, handled, startFail, fsOk, report, idle>>

(* the operator removes the log file while the server runs *)
Unlink ==
  /\ phase \in {"running", "draining"}
  /\ file.exists
  /\ file' = NoFile
  /\ UNCHANGED <<phase, dirExists, logCount, conns, clock, last, handled, startFail, fsOk, begun, report, idle>>

(* the operator starts the script again after the process has ended: the
   file system and what the clients have received stay, the new process has
   no connection and has not declared its counter yet *)
Restart ==
  /\ phase \in {"stopped", "crashed"}
  /\ phase' = "mkdir"
  /\ conns' = <<>>
  /\ handled' = NoneHandled
  /\ startFail' = FALSE
  /\ report' = NoReport
  /\ UNCHANGED <<dirExists, file, logCount, clock, last, fsOk, begun, idle>>

NextRestart ==
  \/ StartMkdir
  \/ StartTruncate
  \/ Listen
  \/ GetLogs
  \/ IngestBeginId
  \/ IngestData
  \/ IngestEnd
  \/ Unlink
  \/ FsChange
  \/ Signal
  \/ Exit
  \/ Restart

SpecRestart == Init /\ [][NextRestart]_vars

(* ------------------ shutdown with connections left open ---------------- *)
MaxIdle == 1

(* a client opens a connection and sends no request on it; the listener is
   not called *)
IdleOpen ==
  /\ Accepting
  /\ idle < MaxIdle
  /\ idle' = idle + 1
  /\ UNCHANGED <<phase, dirExists, file, logCount, conns, clock, last, handled, startFail, fsOk, begun, report>>

IdleClose_Never ==
  /\ phase = "draining"
  /\ idle > 0
  /\ UNCHANGED vars

(* a connection that carries no request ends: http.Server closes it (when
   close() is called, or when its keep-alive or headers timeout expires), or
   its client does; the script sets none of the server's timeouts to 0 *)
IdleClose ==
  /\ phase \in {"running", "draining"}
  /\ idle > 0
  /\ idle' = idle - 1
  /\ UNCHANGED <<phase, dirExists, file, logCount, conns, clock, last, handled, startFail, fsOk, begun, report>>

NextShutdown ==
  \/ StartMkdir
  \/ StartTruncate
  \/ Listen
  \/ IngestBegin
  \/ IngestData
  \/ IngestEnd
  \/ Abort
  \/ IdleOpen
  \/ IdleClose
  \/ FsChange
  \/ Signal
  \/ Exit

(* the 'end' callback of a completely received request has run: of the
   steps of the server only IngestEnd takes a request whose body is complete
   out of conns *)
RequestEnds ==
  \E r \in DOMAIN conns : conns[r].left = <<>> /\ conns' = Remove(conns, r)

(* the event loop runs every callback that is due: the chunks of a request
   in flight are delivered and, once its body is complete, its 'end'
   callback runs; the timers of http.Server fire; the close callback runs
   once the last connection has ended *)
SpecShutdown ==
  /\ Init
  /\ [][NextShutdown]_vars
  /\ WF_vars(IngestData)
  /\ WF_conns(RequestEnds)
  /\ WF_vars(IdleClose)
  /\ WF_vars(Exit)

(* ------- the server of the skill document (.claude-logs/server.js) ----- *)
(* the request listener of the inline server: OPTIONS, /health with any
   method, POST /debug, and 404 for the rest *)
InlineRoute(method, url) ==
  CASE method = "OPTIONS" -> "preflight"
    [] method # "OPTIONS" /\ url = "/health" -> "health"
    [] method = "POST" /\ url = "/debug" -> "debug"
    [] OTHER -> "notfound"

InlineRouted(h) == \E m \in Methods, u \in Urls : InlineRoute(m, u) = h

(* res.writeHead(status); res.end(out): no handler adds a header *)
InlineRespond(op, status, out, req) ==
  [op |-> op, status |-> status, out |-> out, req |-> req, headers |-> CorsHeaders]

(* if (!fs.existsSync('.claude-logs')) fs.mkdirSync(...): the log file is
   not emptied, server.listen comes next *)
InlineMkdir ==
  /\ phase = "mkdir"
  /\ LET failed == ~dirExists /\ ~fsOk IN
       /\ phase' = StartStep(~failed, "listen")
       /\ startFail' = (startFail \/ failed)
       /\ dirExists' = (dirExists \/ fsOk)
  /\ UNCHANGED <<file, logCount, conns, clock, last, handled, fsOk, begun, report, idle>>

InlinePreflight ==
  /\ Accepting
  /\ InlineRouted("preflight")
  /\ last' = InlineRespond("preflight", 204, <<>>, <<>>)
  /\ UNCHANGED <<phase, dirExists, file, logCount, conns, clock, handled, startFail, fsOk, begun, report, idle>>

InlineHealth ==
  /\ Accepting
  /\ InlineRouted("health")
  /\ last' = InlineRespond("health", 200, <<"ok">>, <<>>)
  /\ UNCHANGED <<phase, dirExists, file, logCount, conns, clock, handled, startFail, fsOk, begun, report, idle>>

InlineNotFound ==
  /\ Accepting
  /\ InlineRouted("notfound")
  /\ last' = InlineRespond("notfound", 404, <<>>, <<>>)
  /\ UNCHANGED <<phase, dirExists, file, logCount, conns, clock, handled, startFail, fsOk, begun, report, idle>>

InlineBegin ==
  /\ Accepting
  /\ Len(conns) < MaxConns
  /\ begun < MaxHandled
  /\ InlineRouted("debug")
  /\ \E b \in IdBodies : conns' = Append(conns, NewRequest(b))
  /\ begun' = begun + 1
  /\ UNCHANGED <<phase, dirExists, file, logCount, clock, last, handled, startFail, fsOk, report, idle>>

(* data.id = `log_${Date.now()}_${Math.random().toString(36).slice(2, 6)}` *)
InlineEntry(payload, now, rnd) == Set(payload, "id", Str(GenId(now, rnd)))

(* the try block of the inline 'end' callback and its catch: the file after
   the callback and the status sent *)
InlineEndCallback(body, f, now, rnd, appendOk) ==
  LET p == JSONparse(body) IN
    IF ~p.ok THEN [file |-> f, status |-> 400]                 \* SyntaxError
    ELSE IF GetThrows(p.val) THEN [file |-> f, status |-> 400] \* TypeError on data.id
    ELSE IF ~appendOk THEN [file |-> f, status |-> 400]        \* append threw
    ELSE [file |-> AppendFile(f, JSONstringify(InlineEntry(p.val, now, rnd)) \o <<NL>>),
          status |-> 200]

InlineIngestEnd ==
  /\ phase = "running"
  /\ \E r \in DOMAIN conns, now \in Clock, rnd \in RandomSuffixes :
       /\ conns[r].left = <<>>
       /\ clock <= now
       /\ conns' = Remove(conns, r)
       /\ LET e == InlineEndCallback(conns[r].body, file, now, rnd, fsOk) IN
            /\ file' = e.file
            /\ last' = InlineRespond("debug", e.status, <<>>, conns[r].body)
       /\ clock' = IF JSONparse(conns[r].body).ok THEN now ELSE clock
  /\ UNCHANGED <<phase, dirExists, logCount, handled, startFail, fsOk, begun, report, idle>>

(* process.on('SIGINT', () => { server.close(); process.exit(0); }): the
   process ends at once, whatever is in flight *)
InlineSigint ==
  /\ phase = "running"
  /\ phase' = "stopped"
  /\ conns' = <<>>
  /\ idle' = 0
  /\ UNCHANGED <<dirExists, file, logCount, clock, last, handled, startFail, fsOk, begun, report>>

NextInline ==
  \/ InlineMkdir
  \/ Listen
  \/ InlinePreflight
  \/ InlineHealth
  \/ InlineNotFound
  \/ InlineBegin
  \/ IngestData
  \/ InlineIngestEnd
  \/ Abort
  \/ FsChange
  \/ InlineSigint

SpecInline == Init /\ [][NextInline]_vars

(* ======================= properties of the server ====================== *)
IsPrefix(a, b) == Len(a) <= Len(b) /\ SubSeq(b, 1, Len(a)) = a
Suffix(a, b) == SubSeq(b, Len(a) + 1, Len(b))      \* what b adds to its prefix a

(* text.split('\n') *)
RECURSIVE Split(_)
Split(text) ==
  IF \A i \in 1..Len(text) : text[i] # NL THEN <<text>>
  ELSE LET i == CHOOSE j \in 1..Len(text) :
                  text[j] = NL /\ \A k \in 1..(j - 1) : text[k] # NL
       IN <<SubSeq(text, 1, i - 1)>> \o Split(SubSeq(text, i + 1, Len(text)))

NonEmptyLines(text) == SelectSeq(Split(text), LAMBDA l : l # <<>>)

(* one complete line: no newline but the final one *)
OneLine(text) ==
  /\ Len(text) >= 2
  /\ text[Len(text)] = NL
  /\ \A i \in 1..(Len(text) - 1) : text[i] # NL

Keys(v) == IF v.t = "obj" THEN {v.m[i].k : i \in 1..Len(v.m)} ELSE {}
ServerFields == {"id", "serverTimestamp"}

(* q is an object with an id and a serverTimestamp that agrees with the
   payload p on every other field *)
SameEntry(q, p) ==
  /\ q.t = "obj"
  /\ ServerFields \subseteq Keys(q)
  /\ \A k \in (Keys(p) \cup Keys(q)) \ ServerFields : Get(q, k) = Get(p, k)

(* the step is the 'end' callback of the request on connection r *)
IngestEndStep(r) ==
  /\ r \in DOMAIN conns
  /\ conns[r].left = <<>>
  /\ Len(conns') < Len(conns)
  /\ conns' = Remove(conns, r)
  /\ phase' = phase

Live == phase \in {"listen", "running", "draining", "stopped"}

(* C1: handling a POST /debug whose body is valid JSON (the storage working)
   appends exactly one line, which parses back to an object equal to the
   payload but for id and serverTimestamp, adds 1 to the counter and is
   answered 200. *)
C1_ValidJsonAppendsOneEntry ==
  [][\A r \in 1..MaxConns :
       (IngestEndStep(r) /\ JSONparse(conns[r].sent).ok /\ fsOk) =>
         /\ last'.op = "debug" /\ last'.status = 200
         /\ logCount' = logCount + 1
         /\ IsPrefix(file.content, file'.content)
         /\ LET added == Suffix(file.content, file'.content) IN
              /\ OneLine(added)
              /\ JSONparse(SubSeq(added, 1, Len(added) - 1)).ok
              /\ SameEntry(JSONparse(SubSeq(added, 1, Len(added) - 1)).val,
                           JSONparse(conns[r].sent).val)]_vars

(* C2: handling a POST /debug whose body is not valid JSON is answered 400
   and leaves the log file and the counter as they were. *)
C2_InvalidJsonRejected ==
  [][\A r \in 1..MaxConns :
       (IngestEndStep(r) /\ ~JSONparse(conns[r].sent).ok) =>
         /\ last'.op = "debug" /\ last'.status = 400
         /\ last'.req = conns[r].sent
         /\ file' = file
         /\ logCount' = logCount]_vars

C2_Witness ==
  /\ phase = "running"
  /\ last.op = "debug" /\ last.status = 400
  /\ ~JSONparse(last.req).ok
  /\ logCount = 1
  /\ Len(NonEmptyLines(file.content)) = 1

(* C3: while every ingest handled since the last truncation was a valid one
   handled with the storage working, the file holds exactly one line per
   ingest and the counter equals their number, however the chunks and end
   events of concurrent requests interleaved; and each such ingest appends
   one line that is the complete serialization of its own payload. *)
C3_ConcurrentIngestsOneLineEach ==
  /\ []((Live /\ handled.other = 0) =>
          /\ Len(NonEmptyLines(file.content)) = handled.valid
          /\ logCount = handled.valid
          /\ (file.content = <<>> \/ file.content[Len(file.content)] = NL))
  /\ [][\A r \in 1..MaxConns :
          (IngestEndStep(r) /\ ValidIngest(conns[r].sent) /\ fsOk) =>
            \E t1 \in Clock, t2 \in Clock, rnd \in RandomSuffixes :
              file'.content = file.content
                  \o JSONstringify(Entry(JSONparse(conns[r].sent).val, t1, t2, rnd))
                  \o <<NL>>]_vars

(* two valid ingests are in flight at once, each between two of its chunks,
   and each has accumulated the beginning of its own body only *)
C3_Witness ==
  /\ phase = "running"
  /\ Len(conns) = 2
  /\ conns[1].sent # conns[2].sent
  /\ \A r \in 1..2 :
       /\ ValidIngest(conns[r].sent)
       /\ conns[r].body # <<>>
       /\ conns[r].left # <<>>
       /\ conns[r].body \o conns[r].left = conns[r].sent

(* C4: every non-empty line of the body of a GET /logs answer parses as one
   JSON object. *)
C4_LogsLinesAreObjects ==
  (last.op = "logs" /\ last.status = 200) =>
    \A i \in 1..Len(NonEmptyLines(last.out)) :
      /\ JSONparse(NonEmptyLines(last.out)[i]).ok
      /\ JSONparse(NonEmptyLines(last.out)[i]).val.t = "obj"

(* C5: a POST /clear handled with the storage working is answered 200 and
   leaves the file empty and the counter 0; a GET /logs handled right after
   it returns an empty body and a GET /health reports logCount 0; a second
   clear changes nothing. *)
C5_ClearEmptiesLog ==
  /\ [][(Clear /\ fsOk) =>
          /\ last'.op = "clear" /\ last'.status = 200
          /\ file' = EmptyFile
          /\ logCount' = 0
          /\ phase' = phase]_vars
  /\ [][(last.op = "clear" /\ GetLogs /\ fsOk) =>
          (last'.status = 200 /\ last'.out = <<>>)]_vars
  /\ [][(last.op = "clear" /\ Health) =>
          (last'.status = 200 /\ last'.out = HealthBody(0))]_vars
  /\ [][(last.op = "clear" /\ Clear /\ fsOk) =>
          (file' = file /\ logCount' = logCount /\ last' = last)]_vars

(* after an ingest was handled, a clear, then a GET /logs with nothing
   handled in between: the body is empty *)
C5_Witness ==
  /\ last.op = "logs" /\ last.status = 200 /\ last.out = <<>>
  /\ clock > 1
  /\ handled = NoneHandled
  /\ logCount = 0

(* C6: when a POST /debug is answered 200, its line is in the log file, with
   the payload's fields, a non-empty id and a serverTimestamp. *)
C6_AckedEntryIsInFile ==
  [][\A r \in 1..MaxConns :
       (IngestEndStep(r) /\ last'.status = 200) =>
         /\ IsPrefix(file.content, file'.content)
         /\ LET added == Suffix(file.content, file'.content) IN
              /\ OneLine(added)
              /\ JSONparse(SubSeq(added, 1, Len(added) - 1)).ok
              /\ SameEntry(JSONparse(SubSeq(added, 1, Len(added) - 1)).val,
                           JSONparse(conns[r].sent).val)
              /\ Truthy(Get(JSONparse(SubSeq(added, 1, Len(added) - 1)).val, "id"))]_vars

(* C7: the log file shrinks only when it is truncated to empty, by the
   startup or by a clear; any other step leaves it as it is or appends
   exactly one complete line at its end. *)
C7_AppendOnly ==
  [][\/ file'.content = file.content
     \/ /\ file'.content = <<>>
        /\ (StartTruncate \/ Clear)
     \/ /\ IsPrefix(file.content, file'.content)
        /\ OneLine(Suffix(file.content, file'.content))]_vars

C7_Witness ==
  /\ phase = "running"
  /\ Len(NonEmptyLines(file.content)) = 2
  /\ NonEmptyLines(file.content)[1] # NonEmptyLines(file.content)[2]

(* C8: when the append fails during a POST /debug with a valid JSON object,
   the request is answered 5xx, the counter is not incremented and the
   server keeps running. *)
C8_AppendFailureIsServerError ==
  [][\A r \in 1..MaxConns :
       (IngestEndStep(r) /\ ValidIngest(conns[r].sent) /\ ~fsOk) =>
         /\ last'.op = "debug" /\ last'.status >= 500
         /\ logCount' = logCount
         /\ phase' = phase]_vars

(* C9: when truncating the file fails during a POST /clear, the request is
   answered with a server error and the server keeps running. *)
C9_ClearFailureIsServerError ==
  [][(Clear /\ ~fsOk) =>
       /\ last'.op = "clear" /\ last'.status >= 500
       /\ phase' = phase]_vars

(* C10: once creating the log directory or truncating the log file has
   failed during startup, the server is not listening and never will be:
   the process has ended and has accepted no request. *)
C10_StartupFailureIsFatal ==
  startFail =>
    /\ phase = "crashed"
    /\ last = NoResponse
    /\ conns = <<>>
    /\ ~ENABLED Next

C10_Witness ==
  /\ startFail
  /\ phase = "crashed"
  /\ file.content # <<>>

(* the step handles a request with this method and this path *)
Serves(method, url) ==
  LET h == Route(method, url) IN
    \/ h = "preflight" /\ Preflight
    \/ h = "health" /\ Health
    \/ h = "logs" /\ GetLogs
    \/ h = "clear" /\ Clear
    \/ h = "debug" /\ IngestBegin
    \/ h = "notfound" /\ NotFound

Recognised(method, url) ==
  \/ method = "OPTIONS"
  \/ <<method, url>> \in {<<"POST", "/debug">>, <<"GET", "/health">>,
                           <<"GET", "/logs">>, <<"POST", "/clear">>}

(* C13: a request whose method and path are none of POST /debug,
   GET /health, GET /logs, POST /clear and OPTIONS on any path is answered
   404 and leaves the log file and the counter unchanged. *)
C13_UnknownRouteIsNotFound ==
  [][\A m \in Methods, u \in Urls :
       (~Recognised(m, u) /\ Serves(m, u)) =>
         /\ last'.status = 404
         /\ file' = file
         /\ logCount' = logCount]_vars

(* C14: an OPTIONS request to any path is answered 204 with an empty body
   and leaves the log file, the counter and the requests in flight
   unchanged. *)
C14_PreflightTouchesNothing ==
  [][\A u \in Urls :
       Serves("OPTIONS", u) =>
         /\ last'.status = 204
         /\ last'.out = <<>>
         /\ file' = file
         /\ logCount' = logCount
         /\ conns' = conns]_vars

(* a preflight answered while the log holds an entry *)
C14_Witness ==
  /\ last.op = "preflight" /\ last.status = 204 /\ last.out = <<>>
  /\ logCount = 1
  /\ Len(NonEmptyLines(file.content)) = 1

(* C15: every response sent carries Access-Control-Allow-Origin: *,
   whatever its status and whichever route produced it. *)
C15_EveryResponseAllowsAnyOrigin ==
  last # NoResponse =>
    /\ "Access-Control-Allow-Origin" \in DOMAIN last.headers
    /\ last.headers["Access-Control-Allow-Origin"] = "*"

(* an error answer (the failed read of GET /logs) with the header *)
C15_Witness ==
  /\ last.status = 500
  /\ "Access-Control-Allow-Origin" \in DOMAIN last.headers
  /\ last.headers["Access-Control-Allow-Origin"] = "*"

(* JSON.parse of an answer of /health, tabulated for the answers that show
   a counter up to MaxHandled *)
ParsedAnswers == [out \in {HealthBody(n) : n \in 0..MaxHandled} |-> JSONparse(out)]
ParseAnswer(out) ==
  IF out \in DOMAIN ParsedAnswers THEN ParsedAnswers[out] ELSE JSONparse(out)

(* C16: while the server is running a GET /health can always be handled; it
   is answered 200 with the current value of the counter and the port, and
   leaves the log file and the counter unchanged. *)
C16_HealthReportsCounter ==
  /\ [](phase = "running" => ENABLED Health)
  /\ [][(last'.op = "health" /\ Serves("GET", "/health")) =>
          /\ last'.status = 200
          /\ ParseAnswer(last'.out).ok
          /\ Get(ParseAnswer(last'.out).val, "status") = Str("ok")
          /\ Get(ParseAnswer(last'.out).val, "logCount") = Num(logCount)
          /\ Get(ParseAnswer(last'.out).val, "port") = Num(PORT)
          /\ file' = file
          /\ logCount' = logCount
          /\ phase' = phase]_vars

(* a health answer that reports two ingests *)
C16_Witness ==
  /\ last.op = "health" /\ last.status = 200
  /\ logCount = 2
  /\ JSONparse(last.out).ok
  /\ Get(JSONparse(last.out).val, "logCount") = Num(2)

(* C18: when the process exits after a termination signal, SIGINT or
   SIGTERM, the final value of the counter has been reported on the
   operator console. *)
C18_FinalCountReported ==
  [][(phase = "draining" /\ phase' = "stopped") => report' = logCount]_vars

(* the id of the entry on a line of the log file *)
HasId(line) ==
  /\ JSONparse(line).ok
  /\ JSONparse(line).val.t = "obj"
  /\ HasKey(JSONparse(line).val.m, "id")
LineId(line) == Get(JSONparse(line).val, "id")

(* C19: the ids of the entries in the log file are pairwise distinct. *)
C19_IdsAreDistinct ==
  LET lines == NonEmptyLines(file.content) IN
    \A i \in 1..Len(lines), j \in 1..Len(lines) :
      (i < j /\ HasId(lines[i]) /\ HasId(lines[j])) => LineId(lines[i]) # LineId(lines[j])

(* C20: when a client disconnects before its POST /debug body is complete,
   the log file, the counter and the last answer stay as they were, the
   server keeps its state, and every other request in flight keeps what it
   has received. *)
C20_DisconnectWritesNothing ==
  [][Abort =>
       /\ file' = file
       /\ logCount' = logCount
       /\ last' = last
       /\ phase' = phase
       /\ \E r \in DOMAIN conns :
            /\ conns[r].left # <<>>
            /\ Len(conns') = Len(conns) - 1
            /\ \A q \in DOMAIN conns' : conns'[q] = conns[IF q < r THEN q ELSE q + 1]]_vars

(* two requests have begun, none was answered, and only one is still being
   received, between two of its chunks: the other one was dropped *)
C20_Witness ==
  /\ phase = "running"
  /\ begun = 2
  /\ last = NoResponse
  /\ handled = NoneHandled
  /\ file = EmptyFile /\ logCount = 0
  /\ Len(conns) = 1
  /\ conns[1].body # <<>>
  /\ conns[1].left # <<>>

(* C11: on every start the server begins to listen with an empty log file
   and the counter at 0, whatever the file held before; no ingest is in
   flight before it listens, and the file gains content only while the
   server is listening or draining. *)
C11_StartTruncatesOldContent ==
  /\ [][(phase # "running" /\ phase' = "running") =>
          (file' = EmptyFile /\ logCount' = 0 /\ conns' = <<>>)]_vars
  /\ [](phase \in {"mkdir", "truncate", "listen"} => conns = <<>>)
  /\ [][(file'.content # file.content /\ file'.content # <<>>) =>
          phase \in {"running", "draining"}]_vars

(* the server is listening again after a run that acknowledged an ingest:
   the file is empty and the counter 0 though nothing was cleared *)
C11_Witness ==
  /\ phase = "running"
  /\ last.op = "debug" /\ last.status = 200
  /\ handled = NoneHandled
  /\ begun = 1
  /\ conns = <<>>
  /\ file = EmptyFile
  /\ logCount = 0

(* C12: when the payload of an ingested JSON object has an id field, the
   persisted id is that value, whatever it is. *)
C12_SuppliedIdIsKept ==
  [][\A r \in 1..MaxConns :
       (/\ IngestEndStep(r)
        /\ ValidIngest(conns[r].sent)
        /\ HasKey(JSONparse(conns[r].sent).val.m, "id")
        /\ fsOk) =>
         /\ IsPrefix(file.content, file'.content)
         /\ LET added == Suffix(file.content, file'.content) IN
              /\ OneLine(added)
              /\ HasId(SubSeq(added, 1, Len(added) - 1))
              /\ LineId(SubSeq(added, 1, Len(added) - 1))
                   = Get(JSONparse(conns[r].sent).val, "id")]_vars

(* C17: a GET /logs whose read succeeds is answered 200 with exactly the
   content of the log file, or with an empty body when the file does not
   exist, and changes neither the file, the counter nor the requests in
   flight. *)
C17_LogsReturnsFileVerbatim ==
  [][(Serves("GET", "/logs") /\ (fsOk \/ ~file.exists)) =>
       /\ last'.status = 200
       /\ last'.out = (IF file.exists THEN file.content ELSE <<>>)
       /\ file' = file
       /\ logCount' = logCount
       /\ conns' = conns]_vars

(* the file was read between two chunks of an ingest in flight *)
C17_Witness ==
  /\ last.op = "logs" /\ last.status = 200
  /\ file.exists /\ file.content # <<>>
  /\ last.out = file.content
  /\ Len(conns) = 1
  /\ conns[1].body # <<>>
  /\ conns[1].left # <<>>

(* ---------------- counter, lifecycle, timestamps, responses ------------ *)
(* C21: between two callbacks of the started server the counter equals the
   number of lines of the file, and that number is the number of ingests
   accepted since the last start or clear: an ingest answered 200 adds one to
   the counter, an ingest answered otherwise (failed or rejected) leaves the
   counter and the file as they were. *)
C21_CounterIsLinesIsAccepted ==
  /\ [](Live => logCount = Len(NonEmptyLines(file.content)))
  /\ [][\A r \in 1..MaxConns :
          IngestEndStep(r) =>
            IF last'.status = 200
              THEN logCount' = logCount + 1
              ELSE logCount' = logCount /\ file' = file]_vars

(* the moves of the lifecycle: the three steps of starting, then running,
   draining and stopped; a start that fails ends the process before it runs *)
LifecycleMoves ==
  { <<"mkdir", "truncate">>, <<"truncate", "listen">>, <<"listen", "running">>,
    <<"running", "draining">>, <<"draining", "stopped">>,
    <<"mkdir", "crashed">>, <<"truncate", "crashed">>, <<"listen", "crashed">> }

(* C22: the phase only moves starting -> running -> draining -> stopped;
   while draining no request is begun, a request in flight leaves only by
   its 'end' callback or by its client disconnecting, a valid ingest ended
   while draining (the storage working) is appended and counted, and stopped
   is reached with no request left. *)
C22_LifecycleOnlyMovesForward ==
  /\ [][phase' # phase => <<phase, phase'>> \in LifecycleMoves]_vars
  /\ [][phase = "draining" =>
          /\ Len(conns') <= Len(conns)
          /\ begun' = begun
          /\ (Len(conns') < Len(conns) =>
                \E r \in DOMAIN conns :
                  /\ conns' = Remove(conns, r)
                  /\ (conns[r].left = <<>> =>
                        last' = Respond("debug", last'.status, <<>>, conns[r].sent))
                  /\ (conns[r].left = <<>> /\ ValidIngest(conns[r].sent) /\ fsOk) =>
                        /\ logCount' = logCount + 1
                        /\ Len(NonEmptyLines(file'.content))
                             = Len(NonEmptyLines(file.content)) + 1)]_vars
  /\ [](phase = "stopped" => conns = <<>>)

(* C23: once a signal has put the running server in draining it eventually
   stops, provided the requests in flight are eventually handled; a
   connection that carries no request does not hold it back forever. *)
C23_SignalLeadsToStopped == (phase = "draining") ~> (phase = "stopped")

(* the server drains with a request in flight and a connection without one *)
C23_Witness ==
  /\ phase = "draining"
  /\ idle > 0
  /\ Len(conns) > 0
  /\ conns[1].left # <<>>

(* the serverTimestamp of a line that is an object with one, -1 otherwise *)
LineTime(line) ==
  LET e == JSONparse(line) IN
    IF e.ok /\ e.val.t = "obj" /\ Get(e.val, "serverTimestamp").t = "num"
      THEN Get(e.val, "serverTimestamp").n
      ELSE -1

(* C24: the entry appended for a payload that is a JSON object carries as
   serverTimestamp the value the server's clock has when the ingest is
   handled, whatever serverTimestamp the payload brought, and that value is
   not smaller than the serverTimestamp of any line already in the file. *)
C24_ServerTimestampIsServerClock ==
  [][\A r \in 1..MaxConns :
       (/\ IngestEndStep(r)
        /\ file'.content # file.content
        /\ ValidIngest(conns[r].sent)) =>
         LET added == Suffix(file.content, file'.content)
             before == NonEmptyLines(file.content)
         IN /\ LineTime(SubSeq(added, 1, Len(added) - 1)) = clock'
            /\ clock <= clock'
            /\ \A i \in 1..Len(before) : LineTime(before[i]) <= clock']_vars

(* the last entry of a file of two is that of a payload that brought its own
   serverTimestamp, and carries the clock's value *)
C24_Witness ==
  /\ phase = "running"
  /\ last.op = "debug" /\ last.status = 200
  /\ Len(file.content) > 0
  /\ Get(JSONparse(last.req).val, "serverTimestamp") = Num(9)
  /\ LET lines == NonEmptyLines(file.content) IN
       /\ Len(lines) = 2
       /\ LineTime(lines[1]) \in 1..(clock - 1)
       /\ LineTime(lines[2]) = clock

ResponseStatuses == {200, 204, 400, 404, 500}

(* the handler of the step has sent its response and returned *)
Answered(op) ==
  /\ phase' = phase
  /\ last'.op = op
  /\ last'.status \in ResponseStatuses

(* C25: every step that handles a complete request sends one response, with
   a status among 200, 204, 400, 404 and 500; a step of a request whose body
   is not complete yet (its beginning, a chunk, its client's disconnection)
   sends none. *)
C25_OneResponsePerRequest ==
  [][/\ (Preflight => Answered("preflight"))
     /\ (Health => Answered("health"))
     /\ (GetLogs => Answered("logs"))
     /\ (Clear => Answered("clear"))
     /\ (NotFound => Answered("notfound"))
     /\ \A r \in 1..MaxConns : IngestEndStep(r) => Answered("debug")
     /\ ((IngestBegin \/ IngestData \/ Abort) => last' = last)]_vars

(* C26: the entry the inline server of the skill document appends for a
   payload that is a JSON object (the storage working) has the payload's id
   when the payload has an id field, and an id of the server's making only
   when it has none. *)
C26_InlineServerKeepsSuppliedId ==
  [][\A r \in 1..MaxConns :
       (/\ IngestEndStep(r)
        /\ ValidIngest(conns[r].sent)
        /\ fsOk) =>
         /\ IsPrefix(file.content, file'.content)
         /\ LET added == Suffix(file.content, file'.content)
                payload == JSONparse(conns[r].sent).val
            IN /\ OneLine(added)
               /\ HasId(SubSeq(added, 1, Len(added) - 1))
               /\ IF HasKey(payload.m, "id")
                    THEN LineId(SubSeq(added, 1, Len(added) - 1)) = Get(payload, "id")
                    ELSE \E now \in Clock, rnd \in RandomSuffixes :
                           LineId(SubSeq(added, 1, Len(added) - 1)) = Str(GenId(now, rnd))]_vars
====
